---- MODULE Spec2Model ----
(***************************************************************************)
(* The BCa bootstrap confidence-interval estimator of                      *)
(* scripts/calculate_bca_confidence.py: jackknife_bias_acceleration and    *)
(* bca_bootstrap, called repeatedly on one sample by a process whose       *)
(* process-wide random generator other code may also use.                  *)
(*                                                                         *)
(* The code computes in binary floating point; here every real quantity is *)
(* a fixed-point integer, rounded where the code rounds:                   *)
(*   probabilities  in units of 10^-9  (ProbScale)                         *)
(*   z-scores       in units of 10^-3  (ZScale)                            *)
(*   acceleration a in units of 10^-3  (AccScale)                          *)
(*   statistic values in units of 1/420 (ValueScale)                       *)
(***************************************************************************)
EXTENDS Integers, Sequences, FiniteSets, TLC

\* ------------------------------------------------------------------ bounds
MaxLen == 7
MaxBoot == 4
\* the number of test results analyze_baseline_results is run on
MaxResults == 3

\* ------------------------------------------------------- fixed-point units
ProbScale == 10^9
PpmScale == 10^6
ZScale == 10^3
AccScale == 10^3
\* 420: means of up to 7 observations, and of their leave-one-out means,
\* are exact
ValueScale == 2 * 2 * 3 * 5 * 7

Abs(x) == IF x < 0 THEN -x ELSE x
Min2(x, y) == IF x <= y THEN x ELSE y
Max2(x, y) == IF x >= y THEN x ELSE y
\* division rounded to the nearest integer (d > 0)
RDiv(x, d) == (x + d \div 2) \div d

RECURSIVE IsqrtIter(_, _, _)
IsqrtIter(x, lo, hi) ==
    IF lo >= hi THEN lo
    ELSE LET mid == (lo + hi + 1) \div 2
         IN  IF mid * mid <= x THEN IsqrtIter(x, mid, hi)
             ELSE IsqrtIter(x, lo, mid - 1)
\* floor of the square root, 0 <= x < 2^30
Isqrt(x) == IsqrtIter(x, 0, Min2(x, 32767))

RECURSIVE SumSeq(_)
SumSeq(s) == IF s = <<>> THEN 0 ELSE Head(s) + SumSeq(Tail(s))

RECURSIVE Insert(_, _)
Insert(v, s) ==
    IF s = <<>> THEN <<v>>
    ELSE IF v <= Head(s) THEN <<v>> \o s
    ELSE <<Head(s)>> \o Insert(v, Tail(s))

RECURSIVE Sorted(_)
Sorted(s) == IF s = <<>> THEN <<>> ELSE Insert(Head(s), Sorted(Tail(s)))

\* ------------------------------------------------ program constants
\* np.random.seed(42)
SeedValue == 42
\* if n < 5 in jackknife_bias_acceleration
JackMinSize == 5
\* if n < 5 in bca_bootstrap
BootMinSize == 5
\* 1e-10 in fixed point: floor(1e-10 * scale) for every scale used here, so
\* that for an integer x,  |x| < 1e-10*scale  <=>  |x| <= EpsFloor  and
\* |x| > 1e-10*scale  <=>  |x| > EpsFloor.
EpsFloor == 0
\* max(0.001, min(0.999, p))
ClampLo == PpmScale
ClampHi == 999 * PpmScale

\* ------------------------------------------- scipy.stats.norm.cdf / ppf
\* Phi at z = -6.0, -5.9, ..., 0.0, in units of 10^-9.
PhiKnots ==
    << 1, 2, 3, 6, 11, 19, 33, 58, 100, 170,
       287, 479, 793, 1301, 2112, 3398, 5413, 8540, 13346, 20658,
       31671, 48096, 72348, 107800, 159109, 232629, 336929, 483424, 687138, 967603,
       1349898, 1865813, 2555130, 3466974, 4661188, 6209665, 8197536, 10724110,
       13903448, 17864421,
       22750132, 28716560, 35930319, 44565463, 54799292, 66807201, 80756659,
       96800485, 115069670, 135666061,
       158655254, 184060125, 211855399, 241963652, 274253118, 308537539,
       344578258, 382088578, 420740291, 460172163,
       500000000 >>
NKnots == Len(PhiKnots)
KnotStep == ZScale \div 10
KnotZ(k) == (k - NKnots) * KnotStep

\* Phi(z) for z <= 0: linear between the knots, 0 below the table.
CdfLow(z) ==
    IF z < KnotZ(1) THEN 0
    ELSE LET k == (z - KnotZ(1)) \div KnotStep + 1
         IN  IF k >= NKnots THEN PhiKnots[NKnots]
             ELSE PhiKnots[k]
                  + (z - KnotZ(k)) * ((PhiKnots[k + 1] - PhiKnots[k]) \div KnotStep)

\* stats.norm.cdf(z), z in units of 10^-3, result in units of 10^-9
NormCdf(z) == IF z > 0 THEN ProbScale - CdfLow(-z) ELSE CdfLow(z)

\* Phi^-1(p) for 0 < p <= 1/2: linear between the knots.
PpfLow(p) ==
    IF p <= PhiKnots[1] THEN KnotZ(1)
    ELSE LET k == CHOOSE j \in 1..NKnots :
                     /\ PhiKnots[j] <= p
                     /\ (j = NKnots \/ p < PhiKnots[j + 1])
         IN  IF k = NKnots THEN 0
             ELSE LET dp == PhiKnots[k + 1] - PhiKnots[k]
                      per == (dp + KnotStep - 1) \div KnotStep
                  IN  KnotZ(k) + (p - PhiKnots[k]) \div per

\* stats.norm.ppf(p), 0 < p < 1 in units of 10^-9, result in units of 10^-3
NormPpf(p) == IF p > ProbScale \div 2
              THEN -PpfLow(ProbScale - p)
              ELSE PpfLow(p)

\* max(0.001, min(0.999, p))
Clamp(p) == Max2(ClampLo, Min2(ClampHi, p))

\* ------------------------------------------------------------ inputs
\* A sample of k zeros followed by m ones (binary correctness indicators).
Sample(k, m) == [i \in 1..(k + m) |-> IF i <= k THEN 0 ELSE 1]
Samples == { Sample(p[1], p[2]) :
               p \in { q \in (0..MaxLen) \X (0..MaxLen) : q[1] + q[2] <= MaxLen } }
\* A sample of n observations, ones and zeros in turn.
Alternating(n) == [i \in 1..n |-> i % 2]
\* the samples jackknife_bias_acceleration is called on directly
JackSamples == Samples \cup { Alternating(n) : n \in JackMinSize..MaxLen }
Statistics == {"mean", "median", "min", "max"}
\* the statistics jackknife_bias_acceleration is called with directly: those,
\* and the sum, every leave-one-out value of which can lie below the sum of
\* the sample
JackStatistics == Statistics \cup {"sum"}

\* the arithmetic mean, whatever statistic was supplied
StatisticAsMean(f, x) == (ValueScale * SumSeq(x)) \div Len(x)

\* statistic_func(sample): one real (in units of 1/ValueScale) from a
\* non-empty sequence of observations.
Statistic(f, x) ==
    LET n == Len(x)
        s == Sorted(x)
    IN  CASE f = "mean" -> (ValueScale * SumSeq(x)) \div n
          [] f = "median" ->
                IF n % 2 = 1 THEN ValueScale * s[(n + 1) \div 2]
                ELSE (ValueScale * (s[n \div 2] + s[n \div 2 + 1])) \div 2
          [] f = "min" ->
                ValueScale * (CHOOSE v \in {x[i] : i \in 1..n} :
                                \A i \in 1..n : v <= x[i])
          [] f = "max" ->
                ValueScale * (CHOOSE v \in {x[i] : i \in 1..n} :
                                \A i \in 1..n : v >= x[i])
          [] f = "sum" -> ValueScale * SumSeq(x)

\* ------------------------------------------- the process-wide generator
\* The generator behind np.random: a state and a step (a linear
\* congruential generator stands for numpy's Mersenne Twister).
RngNext(s) == (75 * s + 74) % 65537
RngStates == 0..65536

\* bca_bootstrap without its np.random.seed(42): the resampling loop starts
\* from whatever state the generator is in.
SeedAtEntryKept(s) == s

\* np.random.seed(42): the state the generator is in when the resampling
\* loop of bca_bootstrap starts, given the state it was in at the call.
SeedAtEntry(s) == SeedValue

\* np.random.choice(data, size=n, replace=True): n draws, each an element
\* of data.
RECURSIVE Choice(_, _, _)
Choice(x, s, k) ==
    IF k = 0 THEN [sample |-> <<>>, rng |-> s]
    ELSE LET s1 == RngNext(s)
             rest == Choice(x, s1, k - 1)
         IN  [sample |-> <<x[(s1 % Len(x)) + 1]>> \o rest.sample,
              rng |-> rest.rng]

\* for _ in range(n_bootstrap): bootstrap_estimates.append(statistic_func(
\*     np.random.choice(data, size=n, replace=True)))
RECURSIVE BootstrapEstimates(_, _, _, _)
BootstrapEstimates(x, f, s, b) ==
    IF b <= 0 THEN [estimates |-> <<>>, samples |-> <<>>, rng |-> s]
    ELSE LET c == Choice(x, s, Len(x))
             rest == BootstrapEstimates(x, f, c.rng, b - 1)
         IN  [estimates |-> <<Statistic(f, c.sample)>> \o rest.estimates,
              samples |-> <<c.sample>> \o rest.samples,
              rng |-> rest.rng]

\* ------------------------------------------------------------ jackknife
\* the elements after index i followed by those before it
LeaveOutRotated(x, i) == SubSeq(x, i + 1, Len(x)) \o SubSeq(x, 1, i - 1)

\* np.concatenate([data[:i], data[i+1:]]) (i is 1-based here)
LeaveOut(x, i) == SubSeq(x, 1, i - 1) \o SubSeq(x, i + 1, Len(x))

\* s ** 1.5 for 0 <= s <= 2 * ValueScale^2
Pow15(s) == (s * Isqrt(s * 100)) \div 10

\* the cutoff n < 3 in place of n < 5
JackTooSmallThree(n) == n < 3

\* the cutoff n < 6, above that of bca_bootstrap
JackTooSmallSix(n) == n < 6

\* the sample is too small for the jackknife
JackTooSmall(n) == n < JackMinSize

\* numerator / denominator in units of 1/AccScale (denominator > 0), with
\* the division staged so that no intermediate exceeds 2^31
Ratio(numerator, denominator) ==
    LET q == IF denominator < PpmScale
             THEN RDiv(Abs(numerator) * AccScale, denominator)
             ELSE RDiv(Abs(numerator), RDiv(denominator, AccScale))
    IN  IF numerator < 0 THEN -q ELSE q

\* the guard of a with a threshold of 1 in place of 1e-10
AccelerationCoarse(numerator, denominator) ==
    IF Abs(denominator) > ProbScale THEN Ratio(numerator, denominator) ELSE 0

\* a = numerator / denominator if abs(denominator) > 1e-10 else 0
Acceleration(numerator, denominator) ==
    IF Abs(denominator) > EpsFloor THEN Ratio(numerator, denominator) ELSE 0

\* BiasCorrection counting the estimates not above theta_hat
BiasCorrectionNotAbove(jackknife_estimates, theta_hat) ==
    LET n == Len(jackknife_estimates)
        below == Cardinality({i \in 1..n : jackknife_estimates[i] <= theta_hat})
        proportion == ((below * PpmScale) \div n) * (ProbScale \div PpmScale)
    IN  NormPpf(Clamp(proportion))

\* z0 = stats.norm.ppf(max(0.001, min(0.999, proportion))), proportion the
\* share of the n jackknife estimates below theta_hat
BiasCorrection(jackknife_estimates, theta_hat) ==
    LET n == Len(jackknife_estimates)
        below == Cardinality({i \in 1..n : jackknife_estimates[i] < theta_hat})
        proportion == ((below * PpmScale) \div n) * (ProbScale \div PpmScale)
    IN  NormPpf(Clamp(proportion))

\* a without the factor 6 of its denominator
AccelerationOfNoSix(jackknife_estimates, theta_dot) ==
    LET n == Len(jackknife_estimates)
        numerator == SumSeq([i \in 1..n |->
                        (theta_dot - jackknife_estimates[i])
                        * (theta_dot - jackknife_estimates[i])
                        * (theta_dot - jackknife_estimates[i])])
        denominator == Pow15(SumSeq([i \in 1..n |->
                        (theta_dot - jackknife_estimates[i])
                        * (theta_dot - jackknife_estimates[i])]))
    IN  Acceleration(numerator, denominator)

\* a, from the jackknife estimates and their mean theta_dot
AccelerationOf(jackknife_estimates, theta_dot) ==
    LET n == Len(jackknife_estimates)
        numerator == SumSeq([i \in 1..n |->
                        (theta_dot - jackknife_estimates[i])
                        * (theta_dot - jackknife_estimates[i])
                        * (theta_dot - jackknife_estimates[i])])
        denominator == 6 * Pow15(SumSeq([i \in 1..n |->
                        (theta_dot - jackknife_estimates[i])
                        * (theta_dot - jackknife_estimates[i])]))
    IN  Acceleration(numerator, denominator)

\* the arrays statistic_func is evaluated on, in the order of the calls:
\* data (theta_hat), then the jackknife_sample of every i in range(n)
JackknifeCalls(x) ==
    IF JackTooSmall(Len(x)) THEN <<>>
    ELSE <<x>> \o [i \in 1..Len(x) |-> LeaveOut(x, i)]

\* for i in range(n): jackknife_estimates.append(statistic_func(
\*     np.concatenate([data[:i], data[i+1:]])))
JackknifeEstimates(x, f) == [i \in 1..Len(x) |-> Statistic(f, LeaveOut(x, i))]

\* the part of jackknife_bias_acceleration after the leave-one-out loop
JackknifeParams(jackknife_estimates, theta_hat) ==
    [z0 |-> BiasCorrection(jackknife_estimates, theta_hat),
     a |-> AccelerationOf(jackknife_estimates,
                          SumSeq(jackknife_estimates) \div Len(jackknife_estimates)),
     stat_calls |-> Len(jackknife_estimates) + 1]

\* jackknife_bias_acceleration(data, statistic_func): (z0, a), and the number
\* of times it evaluated statistic_func.
jackknife_bias_acceleration(x, f) ==
    IF JackTooSmall(Len(x)) THEN [z0 |-> 0, a |-> 0, stat_calls |-> 0]
    ELSE JackknifeParams(JackknifeEstimates(x, f), Statistic(f, x))

\* ------------------------------------------------------------ bca_bootstrap
\* the cutoff n < 3 in place of n < 5
BootTooSmallThree(n) == n < 3

\* the sample is too small for the bootstrap
BootTooSmall(n) == n < BootMinSize

\* the test abs(denom) < 0.02 in place of abs(denom) < 1e-10
NearZeroLoose(denom) == Abs(denom) <= 20

\* abs(denom) < 1e-10
NearZero(denom) == Abs(denom) <= EpsFloor

\* denom = 1 - a * (z0 + z), in units of 10^-3
Denom(z0, a, z) ==
    LET prod == a * (z0 + z)
        q == RDiv(Abs(prod), AccScale)
    IN  ZScale - (IF prod < 0 THEN -q ELSE q)

\* z0 + (z0 + z) / denom, in units of 10^-3
AdjustedZ(z0, z, denom) ==
    LET q == RDiv(Abs(z0 + z) * ZScale, Abs(denom))
    IN  z0 + (IF (z0 + z < 0) = (denom < 0) THEN q ELSE -q)

\* The levels of the two percentiles, and whether the plain-percentile
\* branch was taken.
AdjustedLevels(z0, a, alpha) ==
    LET z_alpha_2 == NormPpf(alpha \div 2)
        z_1_alpha_2 == NormPpf(ProbScale - alpha \div 2)
        denom1 == Denom(z0, a, z_alpha_2)
        denom2 == Denom(z0, a, z_1_alpha_2)
    IN  IF NearZero(denom1) \/ NearZero(denom2)
        THEN [alpha1 |-> alpha \div 2, alpha2 |-> ProbScale - alpha \div 2,
              fallback |-> TRUE]
        ELSE [alpha1 |-> Clamp(NormCdf(AdjustedZ(z0, z_alpha_2, denom1))),
              alpha2 |-> Clamp(NormCdf(AdjustedZ(z0, z_1_alpha_2, denom2))),
              fallback |-> FALSE]

\* Percentile with the interpolation weight applied to the upper order
\* statistic instead of to the difference of the two
PercentileNoDifference(est, p) ==
    LET v == Sorted(est)
        pos == (p \div (ProbScale \div PpmScale)) * (Len(v) - 1)
        lo == pos \div PpmScale + 1
        frac == pos % PpmScale
    IN  IF lo >= Len(v) THEN v[Len(v)]
        ELSE v[lo] + (frac * v[lo + 1]) \div PpmScale

\* np.percentile(est, p * 100) of a non-empty array: linear interpolation
\* between the order statistics at position p * (len - 1).
Percentile(est, p) ==
    LET v == Sorted(est)
        pos == (p \div (ProbScale \div PpmScale)) * (Len(v) - 1)
        lo == pos \div PpmScale + 1
        frac == pos % PpmScale
    IN  IF lo >= Len(v) THEN v[Len(v)]
        ELSE v[lo] + (frac * (v[lo + 1] - v[lo])) \div PpmScale

\* np.mean / np.std of the bootstrap distribution
MeanOf(est) == SumSeq(est) \div Len(est)
SumSqDev(est, m) ==
    SumSeq([i \in 1..Len(est) |-> (est[i] - m) * (est[i] - m)])
StdOf(est) == Isqrt(SumSqDev(est, MeanOf(est)) \div Len(est))

\* BcaResult reporting the statistic of the first resample as
\* original_estimate and the length of the sample as bootstrap_samples
BcaResultOfResample(x, f, n_boot, boot, jk, lv) ==
    IF boot.estimates = <<>>
    THEN [ret |-> [raised |-> "IndexError"], rng |-> boot.rng,
          reseeded |-> boot.reseeded, resamples |-> 0,
          stat_calls |-> jk.stat_calls, warned |-> lv.fallback,
          estimates |-> <<>>, samples |-> <<>>]
    ELSE [ret |->
            [lower_bound |-> Percentile(boot.estimates, lv.alpha1),
             upper_bound |-> Percentile(boot.estimates, lv.alpha2),
             bias_correction_z0 |-> jk.z0,
             acceleration_a |-> jk.a,
             bootstrap_mean |-> MeanOf(boot.estimates),
             bootstrap_std |-> StdOf(boot.estimates),
             alpha1 |-> lv.alpha1,
             alpha2 |-> lv.alpha2,
             original_estimate |-> boot.estimates[1],
             bootstrap_samples |-> Len(x)],
          rng |-> boot.rng, reseeded |-> boot.reseeded,
          resamples |-> Len(boot.estimates),
          stat_calls |-> Len(boot.estimates) + jk.stat_calls + 1,
          warned |-> lv.fallback,
          estimates |-> boot.estimates, samples |-> boot.samples]

\* bca_bootstrap(data, statistic_func, n_bootstrap, alpha), called with the
\* generator in state s: the returned value (or the exception that leaves
\* the call), the generator's state at the end, and what the call did on
\* the way.  np.percentile raises IndexError on an empty array, which is what
\* range(n_bootstrap) leaves for n_bootstrap <= 0.
BcaResult(x, f, n_boot, boot, jk, lv) ==
    IF boot.estimates = <<>>
    THEN [ret |-> [raised |-> "IndexError"], rng |-> boot.rng,
          reseeded |-> boot.reseeded, resamples |-> 0,
          stat_calls |-> jk.stat_calls, warned |-> lv.fallback,
          estimates |-> <<>>, samples |-> <<>>]
    ELSE [ret |->
            [lower_bound |-> Percentile(boot.estimates, lv.alpha1),
             upper_bound |-> Percentile(boot.estimates, lv.alpha2),
             bias_correction_z0 |-> jk.z0,
             acceleration_a |-> jk.a,
             bootstrap_mean |-> MeanOf(boot.estimates),
             bootstrap_std |-> StdOf(boot.estimates),
             alpha1 |-> lv.alpha1,
             alpha2 |-> lv.alpha2,
             original_estimate |-> Statistic(f, x),
             bootstrap_samples |-> n_boot],
          rng |-> boot.rng, reseeded |-> boot.reseeded,
          resamples |-> Len(boot.estimates),
          stat_calls |-> Len(boot.estimates) + jk.stat_calls + 1,
          warned |-> lv.fallback,
          estimates |-> boot.estimates, samples |-> boot.samples]

\* BcaAdjust with (z0, a) taken from the jackknife of a bootstrap resample
\* instead of the jackknife of the original data
BcaAdjustResampled(x, f, n_boot, al, boot, jk) ==
    LET jkr == jackknife_bias_acceleration(
                   Choice(x, SeedValue, Len(x)).sample, f)
    IN  BcaResult(x, f, n_boot, boot, jkr, AdjustedLevels(jkr.z0, jkr.a, al))

\* lines 70-103: (z0, a) of the original data, the adjusted levels and the
\* returned record
BcaAdjust(x, f, n_boot, al, boot, jk) ==
    BcaResult(x, f, n_boot, boot, jk, AdjustedLevels(jk.z0, jk.a, al))

\* the resampling loop stopping one iteration early
ResamplingOneShort(x, f, n_boot, s0) ==
    BootstrapEstimates(x, f, s0, n_boot - 1) @@ [reseeded |-> s0 = SeedValue]

\* the resampling loop, started from generator state s0
Resampling(x, f, n_boot, s0) ==
    BootstrapEstimates(x, f, s0, n_boot) @@ [reseeded |-> s0 = SeedValue]

bca_bootstrap(x, f, n_boot, al, s) ==
    IF BootTooSmall(Len(x))
    THEN [ret |-> [error |-> Len(x)], rng |-> s, reseeded |-> FALSE,
          resamples |-> 0, stat_calls |-> 0, warned |-> FALSE,
          estimates |-> <<>>, samples |-> <<>>]
    ELSE BcaAdjust(x, f, n_boot, al,
                   Resampling(x, f, n_boot, SeedAtEntry(s)),
                   jackknife_bias_acceleration(x, f))

\* ------------------------------------------- run_untangle_baseline.py
\* The second bca_bootstrap of the repository, the one analyze_baseline_results
\* calls: it neither checks the sample size nor reseeds the generator, and it
\* returns the tuple (lower_bound, upper_bound, z0, a).

\* for layer in ['l1', 'l2', 'l3']
Layers == <<"l1", "l2", "l3">>
LayerSet == {Layers[i] : i \in 1..Len(Layers)}
\* alpha=0.05, the default analyze_baseline_results leaves in place
DefaultAlpha == 50 * PpmScale
\* np.percentile(bootstrap_means, 2.5) and (..., 97.5)
PlainLower == 25 * PpmScale
PlainUpper == 975 * PpmScale

\* z0 = stats.norm.ppf(np.clip(np.mean(bootstrap_samples < theta_hat),
\*                             1e-10, 1 - 1e-10)); the clip bounds round to 0
\* and 1 in units of 10^-9, where the table of Phi ends (|z| = 6)
BaselineBiasCorrection(bootstrap_samples, theta_hat) ==
    LET n == Len(bootstrap_samples)
        below == Cardinality({i \in 1..n : bootstrap_samples[i] < theta_hat})
        prop_less == ((below * PpmScale) \div n) * (ProbScale \div PpmScale)
    IN  NormPpf(Max2(0, Min2(ProbScale, prop_less)))

\* a from the leave-one-out samples (np.delete(data, i)).  For n = 1 the
\* leave-one-out sample is empty, its mean is nan, the denominator is nan and
\* abs(nan) > 1e-10 is False: a = 0.
BaselineAcceleration(x, f) ==
    IF Len(x) = 1 THEN 0
    ELSE AccelerationOf(JackknifeEstimates(x, f),
                        SumSeq(JackknifeEstimates(x, f)) \div Len(x))

\* adjusted_percentile(z_alpha), then np.clip(..., 0, 1)
adjusted_percentile(z0, a, z_alpha) ==
    LET denominator == Denom(z0, a, z_alpha)
    IN  IF Abs(denominator) <= EpsFloor THEN ProbScale \div 2
        ELSE Max2(0, Min2(ProbScale,
                          NormCdf(AdjustedZ(z0, z_alpha, denominator))))

\* bca_bootstrap(data, statistic_func, n_bootstrap, alpha) of
\* run_untangle_baseline.py, called with the generator in state s (len(data)
\* >= 1, n_bootstrap >= 1)
baseline_bca_bootstrap(x, f, n_boot, al, s) ==
    LET boot == BootstrapEstimates(x, f, s, n_boot)
        z0 == BaselineBiasCorrection(boot.estimates, Statistic(f, x))
        a == BaselineAcceleration(x, f)
        adjusted_lower == adjusted_percentile(z0, a, NormPpf(al \div 2))
        adjusted_upper == adjusted_percentile(z0, a,
                                              NormPpf(ProbScale - al \div 2))
    IN  [lower_bound |-> Percentile(boot.estimates, adjusted_lower),
         upper_bound |-> Percentile(boot.estimates, adjusted_upper),
         z0 |-> z0, a |-> a, rng |-> boot.rng]

\* ------------------------------------------------------------ the process
\* alpha values a caller passes, in units of 10^-9: the default 0.05; 2e-6,
\* small enough for 1 - a*(z0 + z_alpha_2) to be negative when a < 0;
\* 3.3e-6, for which 1 - a*(z0 + z_alpha_2) vanishes on the sample
\* <<0,1,1,1,1,1,1>> under min; and 1.5, outside (0,1).
Alphas == {50 * PpmScale, 2000, 3300, 1500 * PpmScale}
BootCounts == 0..MaxBoot
\* a state other users of np.random leave the generator in
OtherRngStates == {40503}

NoRet == [none |-> TRUE]

VARIABLES
    data,            \* the sample
    statistic_func,  \* the statistic
    n_bootstrap,     \* the resample count the caller passes
    alpha,           \* the significance level the caller passes
    rng,             \* state of the process-wide generator
    ret,             \* what the latest call returned (or raised)
    did,             \* what the latest call did: reseeded, resamples, the
                     \* bootstrap distribution it built, ...
    prev,            \* the call before the latest: what it returned and the
                     \* generator state it started from
    metrics,         \* calculate_accuracy: binary_results of each layer
    raising,         \* the layers whose BCa computation raises
    statistics,      \* what analyze_baseline_results returned
    printed,         \* the lines analyze_baseline_results printed
    jack,            \* what the latest direct call of
                     \* jackknife_bias_acceleration returned, and for which
                     \* statistic
    loop,            \* a call of bca_bootstrap followed through its
                     \* resampling loop: the iterations done and the
                     \* bootstrap distribution so far (how often each value
                     \* of the statistic came up)
    \* run_batched_baseline.py, docker_run
    name,            \* the container name docker_run is called with
    max_retries,     \* its max_retries
    attempt,         \* its loop variable
    docker_pc,       \* where the call is: "idle", "call", "rm", "run", "done"
    docker_ret,      \* what it returned: "none", "True" or "False"
    commands,        \* the docker commands it issued, with their outcomes
    containers,      \* the names of the containers that exist
    \* run_batched_baseline.py, run_batch
    batch_targets,   \* the targets run_batch is called with
    started_containers,  \* its list of the containers it started
    results,         \* its list of result records
    run_pc,          \* where the call is: "idle", "start", "wait", "test",
                     \* "cleanup", "returned", "raised"
    run_i,           \* the position of its current loop
    docker_calls,    \* its calls of docker_run_with_fallback and docker_stop
    \* run_batched_baseline.py, main
    targets,         \* load_targets()
    docker_available,    \* whether 'docker --version' succeeds
    all_results,     \* its list of result records
    failed_targets,  \* its list of the targets to retry
    main_pc,         \* where main is: "idle", "start", "first_pass",
                     \* "retry", "report", "returned_1"
    bi,              \* the batch index of its current loop
    batch_log,       \* the calls of run_batch it made: phase and targets
    \* verify_stage1.py and verify_stage2.py, check_bca_confidence
    report,          \* results/bca_confidence_intervals.json
    result1,         \* RESULT['bca_confidence'] of verify_stage1.py
    return1,         \* what its check_bca_confidence returned
    result2,         \* RESULT['bca_confidence'] of verify_stage2.py
    return2          \* what its check_bca_confidence returned

bcaVars == <<data, statistic_func, n_bootstrap, alpha, ret, did, prev,
            jack, loop>>
batchVars == <<metrics, raising, statistics, printed>>
dockerVars == <<name, max_retries, attempt, docker_pc, docker_ret, commands,
               containers>>
runVars == <<batch_targets, started_containers, results, run_pc, run_i,
            docker_calls>>
mainVars == <<targets, docker_available, all_results, failed_targets, main_pc,
             bi, batch_log>>
verifyVars == <<report, result1, return1, result2, return2>>
\* the variables of the programs other than the BCa computations
toolVars == <<dockerVars, runVars, mainVars, verifyVars>>
vars == <<data, statistic_func, n_bootstrap, alpha, rng, ret, did, prev,
          metrics, raising, statistics, printed, jack, loop, toolVars>>

NoEffects == [rng_before |-> -1, reseeded |-> FALSE, resamples |-> 0,
              stat_calls |-> 0, warned |-> FALSE, estimates |-> <<>>,
              samples |-> <<>>]

\* docker_run is not being called
DockerIdle ==
    /\ name = <<>> /\ max_retries = 0 /\ attempt = 0
    /\ docker_pc = "idle" /\ docker_ret = "none"
    /\ commands = <<>> /\ containers = {}

\* run_batch is not being called
RunIdle ==
    /\ batch_targets = <<>> /\ started_containers = <<>> /\ results = <<>>
    /\ run_pc = "idle" /\ run_i = 0 /\ docker_calls = <<>>

\* main of run_batched_baseline.py is not running
MainIdle ==
    /\ targets = <<>> /\ docker_available = FALSE
    /\ all_results = <<>> /\ failed_targets = <<>>
    /\ main_pc = "idle" /\ bi = 0 /\ batch_log = <<>>

\* no verification has run
VerifyIdle ==
    /\ report = [kind |-> "missing"]
    /\ result1 = <<>> /\ return1 = "none"
    /\ result2 = <<>> /\ return2 = "none"

\* none of the other programs is running
ToolsIdle == DockerIdle /\ RunIdle /\ MainIdle /\ VerifyIdle

\* no BCa computation is running
AnalysisIdle ==
    /\ data = <<>> /\ statistic_func = "mean"
    /\ n_bootstrap = 0 /\ alpha = 0 /\ rng = 0
    /\ ret = NoRet /\ did = NoEffects
    /\ prev = [ret |-> NoRet, rng_before |-> -1]
    /\ metrics = [l \in LayerSet |-> <<>>]
    /\ raising = {}
    /\ statistics = NoRet
    /\ printed = <<>>
    /\ jack = NoRet
    /\ loop = NoRet

\* A caller holds a sample, a statistic and a configuration; nothing has
\* been called yet.
Init ==
    /\ data \in Samples
    /\ statistic_func \in Statistics
    /\ n_bootstrap \in BootCounts
    /\ alpha \in Alphas
    /\ rng \in OtherRngStates
    /\ ret = NoRet
    /\ did = NoEffects
    /\ prev = [ret |-> NoRet, rng_before |-> -1]
    /\ metrics = [l \in LayerSet |-> <<>>]
    /\ raising = {}
    /\ statistics = NoRet
    /\ printed = <<>>
    /\ jack = NoRet
    /\ loop = NoRet
    /\ ToolsIdle

\* One call bca_bootstrap(data, statistic_func, n_bootstrap, alpha).
Call ==
    LET r == bca_bootstrap(data, statistic_func, n_bootstrap, alpha, rng)
    IN  /\ ret' = r.ret
        /\ rng' = r.rng
        /\ did' = [rng_before |-> rng, reseeded |-> r.reseeded,
                   resamples |-> r.resamples, stat_calls |-> r.stat_calls,
                   warned |-> r.warned, estimates |-> r.estimates,
                   samples |-> r.samples]
        /\ prev' = [ret |-> ret, rng_before |-> did.rng_before]
        /\ UNCHANGED <<data, statistic_func, n_bootstrap, alpha, jack, loop>>
        /\ UNCHANGED <<batchVars, toolVars>>

\* Other code of the process uses np.random between two calls.
OtherRandomUse(s) ==
    /\ rng # s
    /\ rng' = s
    /\ UNCHANGED <<bcaVars, batchVars, toolVars>>

Next ==
    \/ Call
    \/ \E s \in OtherRngStates : OtherRandomUse(s)

Spec == Init /\ [][Next]_vars

\* ------------------------------------- the two functions, called directly
\* CallJackknife with a reseeding of the generator, as bca_bootstrap does
CallJackknifeSeeding(f) ==
    LET r == jackknife_bias_acceleration(data, f)
    IN  /\ jack' = [statistic |-> f, z0 |-> r.z0, a |-> r.a,
                   stat_calls |-> r.stat_calls,
                   calls |-> JackknifeCalls(data),
                   jackknife_estimates |->
                       IF JackTooSmall(Len(data)) THEN <<>>
                       ELSE JackknifeEstimates(data, f)]
        /\ rng' = SeedValue
        /\ UNCHANGED <<data, statistic_func, n_bootstrap, alpha, ret, did, prev,
                       loop>>
        /\ UNCHANGED <<batchVars, toolVars>>

\* One call jackknife_bias_acceleration(data, f).
CallJackknife(f) ==
    LET r == jackknife_bias_acceleration(data, f)
    IN  /\ jack' = [statistic |-> f, z0 |-> r.z0, a |-> r.a,
                   stat_calls |-> r.stat_calls,
                   calls |-> JackknifeCalls(data),
                   jackknife_estimates |->
                       IF JackTooSmall(Len(data)) THEN <<>>
                       ELSE JackknifeEstimates(data, f)]
        /\ UNCHANGED <<data, statistic_func, n_bootstrap, alpha, rng, ret, did,
                       prev, loop>>
        /\ UNCHANGED <<batchVars, toolVars>>

\* A caller with one sample that calls both functions, bca_bootstrap with its
\* default alpha.
InitJackknife ==
    /\ data \in JackSamples
    /\ statistic_func \in Statistics
    /\ n_bootstrap = MaxBoot
    /\ alpha = DefaultAlpha
    /\ rng \in OtherRngStates
    /\ ret = NoRet
    /\ did = NoEffects
    /\ prev = [ret |-> NoRet, rng_before |-> -1]
    /\ metrics = [l \in LayerSet |-> <<>>]
    /\ raising = {}
    /\ statistics = NoRet
    /\ printed = <<>>
    /\ jack = NoRet
    /\ loop = NoRet
    /\ ToolsIdle

NextJackknife ==
    \/ \E f \in JackStatistics : CallJackknife(f)
    \/ Call
    \/ \E s \in OtherRngStates : OtherRandomUse(s)

JackknifeSpec == InitJackknife /\ [][NextJackknife]_vars

\* --------------------------- bca_bootstrap, one loop iteration at a time
\* The same function with its resampling loop taken one iteration per step,
\* which is what 10000 resamples of 20 observations need.  The bootstrap
\* distribution is kept as the number of times each value came up.

\* n_bootstrap=10000, the default and what calculate_confidence_intervals
\* passes
DefaultBoot == 10000
\* levels and positions of the percentile of 10000 values, in units of 10^-5
FineScale == 10^5

\* bootstrap_estimates.append(v)
CountOne(counts, v) ==
    IF v \in DOMAIN counts THEN [counts EXCEPT ![v] = @ + 1]
    ELSE counts @@ (v :> 1)

RECURSIVE SumOver(_, _)
SumOver(S, g) ==
    IF S = {} THEN 0
    ELSE LET v == CHOOSE u \in S : TRUE IN g[v] + SumOver(S \ {v}, g)

CountTotal(counts) == SumOver(DOMAIN counts, counts)

\* the k-th smallest of the values counted (1 <= k <= CountTotal(counts))
OrderStatistic(counts, k) ==
    CHOOSE v \in DOMAIN counts :
        /\ SumOver({u \in DOMAIN counts : u <= v}, counts) >= k
        /\ SumOver({u \in DOMAIN counts : u < v}, counts) < k

\* np.percentile(bootstrap_estimates, p * 100) of the values counted
PercentileOfCounts(counts, p) ==
    LET len == CountTotal(counts)
        pos == (p \div (ProbScale \div FineScale)) * (len - 1)
        lo == pos \div FineScale + 1
        frac == pos % FineScale
    IN  IF lo >= len THEN OrderStatistic(counts, len)
        ELSE OrderStatistic(counts, lo)
             + (frac * (OrderStatistic(counts, lo + 1)
                        - OrderStatistic(counts, lo))) \div FineScale

\* np.mean / np.std of the values counted
MeanOfCounts(counts) ==
    SumOver(DOMAIN counts, [v \in DOMAIN counts |-> v * counts[v]])
        \div CountTotal(counts)
StdOfCounts(counts) ==
    LET m == MeanOfCounts(counts)
        SqDev == [v \in DOMAIN counts |-> counts[v] * (v - m) * (v - m)]
    IN  Isqrt(SumOver(DOMAIN counts, SqDev) \div CountTotal(counts))

\* lines 54-61: the size check, then np.random.seed(42)
StartCall ==
    /\ loop = NoRet /\ ret = NoRet
    /\ IF BootTooSmall(Len(data))
       THEN /\ ret' = [error |-> Len(data)]
            /\ UNCHANGED <<rng, loop>>
       ELSE /\ rng' = SeedAtEntry(rng)
            /\ loop' = [i |-> 0, counts |-> <<>>]
            /\ ret' = ret
    /\ UNCHANGED <<data, statistic_func, n_bootstrap, alpha, did, prev, jack>>
    /\ UNCHANGED <<batchVars, toolVars>>

\* lines 62-64: one iteration of the resampling loop
Resample ==
    /\ loop # NoRet /\ loop.i < n_bootstrap
    /\ LET c == Choice(data, rng, Len(data))
       IN  /\ rng' = c.rng
           /\ loop' = [i |-> loop.i + 1,
                       counts |-> CountOne(loop.counts,
                                           Statistic(statistic_func, c.sample))]
    /\ UNCHANGED <<data, statistic_func, n_bootstrap, alpha, ret, did, prev,
                   jack>>
    /\ UNCHANGED <<batchVars, toolVars>>

\* lines 66-103: the jackknife, the adjusted levels, the two percentiles and
\* the record returned (n_bootstrap >= 1)
FinishCall ==
    /\ loop # NoRet /\ loop.i = n_bootstrap /\ ret = NoRet
    /\ LET p == jackknife_bias_acceleration(data, statistic_func)
           lv == AdjustedLevels(p.z0, p.a, alpha)
       IN  ret' = [lower_bound |-> PercentileOfCounts(loop.counts, lv.alpha1),
                   upper_bound |-> PercentileOfCounts(loop.counts, lv.alpha2),
                   bias_correction_z0 |-> p.z0,
                   acceleration_a |-> p.a,
                   bootstrap_mean |-> MeanOfCounts(loop.counts),
                   bootstrap_std |-> StdOfCounts(loop.counts),
                   alpha1 |-> lv.alpha1,
                   alpha2 |-> lv.alpha2,
                   original_estimate |-> Statistic(statistic_func, data),
                   bootstrap_samples |-> n_bootstrap]
    /\ UNCHANGED <<data, statistic_func, n_bootstrap, alpha, rng, did, prev,
                   jack, loop>>
    /\ UNCHANGED <<batchVars, toolVars>>

\* The end-to-end example: 20 binary observations, 15 ones and 5 zeros, the
\* mean, n_bootstrap = 10000, alpha = 0.05.
InitExample ==
    /\ data = Sample(5, 15)
    /\ statistic_func = "mean"
    /\ n_bootstrap = DefaultBoot
    /\ alpha = DefaultAlpha
    /\ rng \in OtherRngStates
    /\ ret = NoRet
    /\ did = NoEffects
    /\ prev = [ret |-> NoRet, rng_before |-> -1]
    /\ metrics = [l \in LayerSet |-> <<>>]
    /\ raising = {}
    /\ statistics = NoRet
    /\ printed = <<>>
    /\ jack = NoRet
    /\ loop = NoRet
    /\ ToolsIdle

NextExample == StartCall \/ Resample \/ FinishCall

ExampleSpec == InitExample /\ [][NextExample]_vars

\* ------------------------------------------- analyze_baseline_results
\* accuracies[layer] of calculate_accuracy: correct / total, 0.0 for total = 0
Accuracy(binary_results) ==
    IF binary_results = <<>> THEN 0
    ELSE (ValueScale * SumSeq(binary_results)) \div Len(binary_results)

\* the except branch: a plain bootstrap of the mean, z0 = a = 0
PlainBootstrap(binary_results, s) ==
    LET boot == BootstrapEstimates(binary_results, "mean", s, MaxBoot)
    IN  [lower_bound |-> Percentile(boot.estimates, PlainLower),
         upper_bound |-> Percentile(boot.estimates, PlainUpper),
         z0 |-> 0, a |-> 0, rng |-> boot.rng]

\* statistics[layer] = {...}
LayerStatistics(binary_results, r) ==
    [accuracy |-> Accuracy(binary_results),
     ci_lower |-> r.lower_bound,
     ci_upper |-> r.upper_bound,
     ci_width |-> (r.upper_bound - r.lower_bound) * 100,
     bias_correction |-> r.z0,
     acceleration |-> r.a,
     sample_size |-> Len(binary_results)]

\* One iteration of the loop over the layers, from the state st = [statistics,
\* printed, rng] the iterations before it left.  A BCa computation that raises
\* is taken to raise before its first draw.
AnalyzeLayer(layer, st) ==
    LET binary_results == metrics[layer]
        failed == layer \in raising
        r == IF failed THEN PlainBootstrap(binary_results, st.rng)
             ELSE baseline_bca_bootstrap(binary_results, "mean", MaxBoot,
                                         DefaultAlpha, st.rng)
    IN  IF Len(binary_results) = 0 THEN st
        ELSE [statistics |->
                 st.statistics @@ (layer :> LayerStatistics(binary_results, r)),
              printed |->
                 st.printed
                 \o (IF failed THEN << <<layer, "BCa failed">> >> ELSE <<>>)
                 \o << <<layer, "report">> >>,
              rng |-> r.rng]

RECURSIVE AnalyzeLayers(_, _)
AnalyzeLayers(k, st) ==
    IF k = 0 THEN st ELSE AnalyzeLayer(Layers[k], AnalyzeLayers(k - 1, st))

\* analyze_baseline_results(results, test_df), which main calls once
analyze_baseline_results ==
    /\ statistics = NoRet
    /\ LET st == AnalyzeLayers(Len(Layers),
                               [statistics |-> <<>>, printed |-> <<>>,
                                rng |-> rng])
       IN  /\ statistics' = st.statistics
           /\ printed' = st.printed
           /\ rng' = st.rng
    /\ UNCHANGED <<bcaVars, metrics, raising, toolVars>>

\* calculate_accuracy appends one 0 or 1 to every layer for each successful
\* result: the three samples have the same length.
BatchSamples(n) == { Sample(n - m, m) : m \in 0..n }

\* main of run_untangle_baseline.py: np.random.seed(42), then the simulated
\* predictions (which draw from np.random), then analyze_baseline_results.
InitBatch ==
    /\ data = <<>> /\ statistic_func = "mean"
    /\ n_bootstrap = MaxBoot /\ alpha = DefaultAlpha
    /\ ret = NoRet /\ did = NoEffects
    /\ prev = [ret |-> NoRet, rng_before |-> -1]
    /\ rng \in {SeedValue} \cup OtherRngStates
    /\ \E n \in 0..MaxResults : metrics \in [LayerSet -> BatchSamples(n)]
    /\ raising \in {{}} \cup {{l} : l \in LayerSet}
    /\ statistics = NoRet
    /\ printed = <<>>
    /\ jack = NoRet
    /\ loop = NoRet
    /\ ToolsIdle

NextBatch == analyze_baseline_results

BatchSpec == InitBatch /\ [][NextBatch]_vars

\* ------------------------------------ run_batched_baseline.py, docker_run
\* docker_run(image, name, host_port, internal_port, max_retries), one
\* subprocess call per step.  A subprocess.run either returns or raises (for
\* 'docker run', subprocess.TimeoutExpired after 30 s among others).

\* max_retries: int = 2
DefaultRetries == 2
\* the values of max_retries a caller passes: 0..MaxRetries
MaxRetries == 3
\* f'baseline_{combo_id}'
ContainerName(combo_id) == <<"baseline", combo_id>>
ContainerNames == {ContainerName(1), ContainerName(2)}

\* the test for a further attempt that stops one attempt late
MoreAttemptsOneLate(k, max) == k < max

\* attempt < max_retries - 1: another attempt follows a failed one
MoreAttempts(k, max) == k < max - 1

\* for attempt in range(max_retries): the loop is entered, or the function
\* falls through to its final return False
EnterDockerRun ==
    /\ docker_pc = "call"
    /\ IF max_retries >= 1
       THEN docker_pc' = "rm" /\ docker_ret' = docker_ret
       ELSE docker_pc' = "done" /\ docker_ret' = "False"
    /\ UNCHANGED <<name, max_retries, attempt, commands, containers>>
    /\ UNCHANGED <<runVars, mainVars>>

\* what follows a failed attempt, by return code (lines 142-143 and the end
\* of the loop, line 151) or by exception (lines 145-149): a pause and the
\* next attempt, or return False
AttemptFailed ==
    IF MoreAttempts(attempt, max_retries)
    THEN attempt' = attempt + 1 /\ docker_pc' = "rm" /\ docker_ret' = docker_ret
    ELSE attempt' = attempt /\ docker_pc' = "done" /\ docker_ret' = "False"

\* subprocess.run(['docker', 'rm', '-f', name], check=False)
DockerRm ==
    /\ docker_pc = "rm"
    /\ \E outcome \in {"returned", "raised"} :
          /\ commands' = Append(commands, [cmd |-> "rm", result |-> outcome])
          /\ IF outcome = "returned"
             THEN /\ containers' = containers \ {name}
                  /\ docker_pc' = "run"
                  /\ UNCHANGED <<attempt, docker_ret>>
             ELSE /\ containers' = containers
                  /\ AttemptFailed
    /\ UNCHANGED <<name, max_retries>>
    /\ UNCHANGED <<runVars, mainVars>>

\* result = subprocess.run(['docker', 'run', '-d', '--rm', '--name', name,
\* ...], timeout=30), and the test of result.returncode
DockerRunCommand ==
    /\ docker_pc = "run"
    /\ \E outcome \in {"0", "nonzero", "raised"} :
          /\ commands' = Append(commands, [cmd |-> "run", result |-> outcome])
          /\ IF outcome = "0"
             THEN /\ containers' = containers \cup {name}
                  /\ docker_pc' = "done" /\ docker_ret' = "True"
                  /\ attempt' = attempt
             ELSE /\ containers' = containers
                  /\ AttemptFailed
    /\ UNCHANGED <<name, max_retries>>
    /\ UNCHANGED <<runVars, mainVars>>

\* A caller about to call docker_run; a container of that name may be left
\* over from an earlier run.
InitDockerRun ==
    /\ AnalysisIdle
    /\ name \in ContainerNames
    /\ max_retries \in 0..MaxRetries
    /\ attempt = 0
    /\ docker_pc = "call"
    /\ docker_ret = "none"
    /\ commands = <<>>
    /\ containers \in SUBSET ContainerNames
    /\ RunIdle /\ MainIdle /\ VerifyIdle

NextDockerRun ==
    (EnterDockerRun \/ DockerRm \/ DockerRunCommand)
    /\ UNCHANGED verifyVars
    /\ UNCHANGED <<data, statistic_func, n_bootstrap, alpha, rng, ret, did,
                   prev, metrics, raising, statistics, printed, jack, loop>>

DockerRunSpec == InitDockerRun /\ [][NextDockerRun]_vars

\* The call runs on: every subprocess.run returns or raises.
DockerRunFairSpec == DockerRunSpec /\ WF_vars(NextDockerRun)

\* ------------------------------------- run_batched_baseline.py, run_batch
\* A target is its combo_id, whether the port of its url can be parsed
\* (get_host_port_from_url raises ValueError otherwise), and what becomes of
\* its container in the first pass (fate) and in a retry (retry_fate): no
\* image starts ("start_failed"), the service never answers ("not_ready"),
\* the request raises requests.RequestException ("request_failed"), or the
\* request is answered ("ok").

\* BATCH_SIZE = 10
BATCH_SIZE == 10
\* len(failed_targets) <= 50
RetryLimit == 50
\* the number of targets of a batch followed step by step
MaxBatch == 3
\* the number of targets main is run on
MaxTargets == 52

Statuses == <<"ok", "start_failed", "not_ready", "request_failed">>
StatusSet == {Statuses[k] : k \in 1..Len(Statuses)}

\* what becomes of the container of target t in the first pass (1) or in the
\* retry (2)
FateOf(t, pass) == IF pass = 1 THEN t.fate ELSE t.retry_fate

\* the record run_batch appends to results
ResultRecord(t, status) == [combo_id |-> t.combo_id, status |-> status]

\* docker_stop(name): the call is logged, the container is gone
StopContainer(c) ==
    /\ docker_calls' = Append(docker_calls,
                              [call |-> "docker_stop", name |-> c, ok |-> TRUE])
    /\ containers' = containers \ {c}

\* lines 338-371, one target per step: the port of the url, then
\* docker_run_with_fallback; past the last target, on to the waiting loop
StartContainers ==
    /\ run_pc = "start"
    /\ IF run_i > Len(batch_targets)
       THEN /\ run_pc' = "wait" /\ run_i' = 1
            /\ UNCHANGED <<started_containers, results, docker_calls,
                           containers>>
       ELSE LET t == batch_targets[run_i]
                success == FateOf(t, 1) # "start_failed"
                c == ContainerName(t.combo_id)
            IN  IF ~t.url_ok
                THEN /\ run_pc' = "raised"
                     /\ UNCHANGED <<run_i, started_containers, results,
                                    docker_calls, containers>>
                ELSE /\ docker_calls' =
                            Append(docker_calls,
                                   [call |-> "docker_run_with_fallback",
                                    name |-> c, ok |-> success])
                     /\ containers' = IF success THEN containers \cup {c}
                                      ELSE containers \ {c}
                     /\ started_containers' =
                            IF success
                            THEN Append(started_containers,
                                        [name |-> c, target |-> t,
                                         ready |-> FALSE])
                            ELSE started_containers
                     /\ results' =
                            IF success THEN results
                            ELSE Append(results, ResultRecord(t, "start_failed"))
                     /\ run_i' = run_i + 1
                     /\ run_pc' = run_pc
    /\ UNCHANGED <<batch_targets, name, max_retries, attempt, docker_pc,
                   docker_ret, commands, mainVars>>

\* lines 373-383, one container per step: wait_http_ready_enhanced
WaitContainers ==
    /\ run_pc = "wait"
    /\ IF run_i > Len(started_containers)
       THEN run_pc' = "test" /\ run_i' = 1
            /\ started_containers' = started_containers
       ELSE /\ started_containers' =
                   [started_containers EXCEPT ![run_i].ready =
                       FateOf(started_containers[run_i].target, 1) # "not_ready"]
            /\ run_i' = run_i + 1
            /\ run_pc' = run_pc
    /\ UNCHANGED <<batch_targets, results, docker_calls, dockerVars, mainVars>>

\* lines 385-437, one container per step: the record of a container that is
\* not ready, with docker_stop at once, or the request and its record
TestContainers ==
    /\ run_pc = "test"
    /\ IF run_i > Len(started_containers)
       THEN /\ run_pc' = "cleanup" /\ run_i' = 1
            /\ UNCHANGED <<results, docker_calls, containers>>
       ELSE LET container == started_containers[run_i]
                t == container.target
            IN  /\ IF ~container.ready
                   THEN /\ results' = Append(results, ResultRecord(t, "not_ready"))
                        /\ StopContainer(container.name)
                   ELSE /\ results' =
                               Append(results,
                                      ResultRecord(t,
                                          IF FateOf(t, 1) = "ok" THEN "ok"
                                          ELSE "request_failed"))
                        /\ UNCHANGED <<docker_calls, containers>>
                /\ run_i' = run_i + 1
                /\ run_pc' = run_pc
    /\ UNCHANGED <<batch_targets, started_containers, name, max_retries,
                   attempt, docker_pc, docker_ret, commands, mainVars>>

\* lines 439-446, one container per step: docker_stop; past the last one,
\* return results
CleanContainers ==
    /\ run_pc = "cleanup"
    /\ IF run_i > Len(started_containers)
       THEN /\ run_pc' = "returned" /\ run_i' = run_i
            /\ UNCHANGED <<docker_calls, containers>>
       ELSE /\ StopContainer(started_containers[run_i].name)
            /\ run_i' = run_i + 1
            /\ run_pc' = run_pc
    /\ UNCHANGED <<batch_targets, started_containers, results, name,
                   max_retries, attempt, docker_pc, docker_ret, commands,
                   mainVars>>

\* what a call of run_batch returns when the url of every target parses: the
\* records of the targets that did not start, in their order, then those of
\* the started ones, in their order
run_batch(batch, pass) ==
    LET NotStarted(t) == FateOf(t, pass) = "start_failed"
        Started(t) == FateOf(t, pass) # "start_failed"
        failed == SelectSeq(batch, NotStarted)
        started == SelectSeq(batch, Started)
    IN  [k \in 1..Len(failed) |-> ResultRecord(failed[k], "start_failed")]
        \o [k \in 1..Len(started) |->
               ResultRecord(started[k], FateOf(started[k], pass))]

\* the batches of up to MaxBatch targets run_batch is followed on
TargetsOf(n, UrlOk, Fates) ==
    { [k \in 1..n |-> [combo_id |-> k, url_ok |-> u[k], fate |-> f[k],
                       retry_fate |-> f[k]]] :
          u \in [1..n -> UrlOk], f \in [1..n -> Fates] }

InitRunBatch ==
    /\ AnalysisIdle /\ DockerIdle /\ MainIdle /\ VerifyIdle
    /\ \E n \in 0..MaxBatch :
          batch_targets \in TargetsOf(n, BOOLEAN, StatusSet)
    /\ started_containers = <<>>
    /\ results = <<>>
    /\ run_pc = "start"
    /\ run_i = 1
    /\ docker_calls = <<>>

\* ------------------------------------------ run_batched_baseline.py, main
\* targets[batch_start:batch_end] of batch number b (from 0)
BatchSlice(list, b) ==
    SubSeq(list, b * BATCH_SIZE + 1, Min2((b + 1) * BATCH_SIZE, Len(list)))

\* math.ceil(total / BATCH_SIZE)
BatchCount(total) == (total + BATCH_SIZE - 1) \div BATCH_SIZE

\* lines 493-501: for every result with status start_failed or not_ready,
\* the first target with its combo_id
RECURSIVE CollectFailed(_, _)
CollectFailed(res, tgts) ==
    IF res = <<>> THEN <<>>
    ELSE LET r == Head(res)
             same == {k \in 1..Len(tgts) : tgts[k].combo_id = r.combo_id}
             rest == CollectFailed(Tail(res), tgts)
         IN  IF r.status \in {"start_failed", "not_ready"} /\ same # {}
             THEN <<tgts[CHOOSE k \in same : \A j \in same : k <= j]>> \o rest
             ELSE rest

\* the test for a replacement that takes every retry result
ReplacesAny(retry_result) == TRUE

\* if retry_result.get('status') == 'ok'
Replaces(retry_result) == retry_result.status = "ok"

\* lines 518-525: the retry results with status ok replace the first record
\* of the same combo_id
RECURSIVE ReplaceFailed(_, _)
ReplaceFailed(all, retry_results) ==
    IF retry_results = <<>> THEN all
    ELSE LET rr == Head(retry_results)
             same == {k \in 1..Len(all) : all[k].combo_id = rr.combo_id}
         IN  IF Replaces(rr) /\ same # {}
             THEN ReplaceFailed(
                      [all EXCEPT ![CHOOSE k \in same : \A j \in same : k <= j]
                                      = rr @@ [retried |-> TRUE]],
                      Tail(retry_results))
             ELSE ReplaceFailed(all, Tail(retry_results))

\* lines 452-472: no targets, or no docker: return 1
MainStart ==
    /\ main_pc = "start"
    /\ main_pc' = IF targets = <<>> \/ ~docker_available THEN "returned_1"
                  ELSE "first_pass"
    /\ UNCHANGED <<targets, docker_available, all_results, failed_targets, bi,
                   batch_log>>
    /\ UNCHANGED <<dockerVars, runVars>>

\* the test for a retry without the upper limit
RetryWantedAlways(failed) == failed # <<>>

\* if failed_targets and len(failed_targets) <= 50
RetryWanted(failed) == failed # <<>> /\ Len(failed) <= RetryLimit

\* lines 474-501: one batch of the first pass per step; past the last one
\* the failed targets are collected
FirstPass ==
    /\ main_pc = "first_pass"
    /\ IF bi < BatchCount(Len(targets))
       THEN LET batch == BatchSlice(targets, bi)
            IN  /\ all_results' =
                       all_results
                       \o [k \in 1..Len(batch) |->
                              run_batch(batch, 1)[k] @@ [retried |-> FALSE]]
                /\ batch_log' = Append(batch_log,
                                       [pass |-> 1, batch_targets |-> batch])
                /\ bi' = bi + 1
                /\ UNCHANGED <<main_pc, failed_targets>>
       ELSE LET failed == CollectFailed(all_results, targets)
            IN  /\ failed_targets' = failed
                /\ main_pc' = IF RetryWanted(failed) THEN "retry" ELSE "report"
                /\ bi' = 0
                /\ UNCHANGED <<all_results, batch_log>>
    /\ UNCHANGED <<targets, docker_available>>
    /\ UNCHANGED <<dockerVars, runVars>>

\* lines 504-530: one retry batch per step
Retry ==
    /\ main_pc = "retry"
    /\ IF bi < BatchCount(Len(failed_targets))
       THEN LET retry_batch == BatchSlice(failed_targets, bi)
            IN  /\ all_results' =
                       ReplaceFailed(all_results, run_batch(retry_batch, 2))
                /\ batch_log' = Append(batch_log,
                                       [pass |-> 2, batch_targets |-> retry_batch])
                /\ bi' = bi + 1
                /\ main_pc' = main_pc
       ELSE /\ main_pc' = "report"
            /\ UNCHANGED <<all_results, batch_log, bi>>
    /\ UNCHANGED <<targets, docker_available, failed_targets>>
    /\ UNCHANGED <<dockerVars, runVars>>

\* the target lists main is run on: n targets, the failing ones the first or
\* the last nfailed of them, start_failed and not_ready in turn, the others
\* ok and request_failed in turn; the retry brings each of the four fates
MainTargets(n, nfailed, first) ==
    [k \in 1..n |->
        [combo_id |-> k, url_ok |-> TRUE,
         fate |-> IF (IF first THEN k <= nfailed ELSE k > n - nfailed)
                  THEN (IF k % 2 = 0 THEN "start_failed" ELSE "not_ready")
                  ELSE (IF k % 2 = 0 THEN "ok" ELSE "request_failed"),
         retry_fate |-> Statuses[(k % 4) + 1]]]

InitMain ==
    /\ AnalysisIdle /\ DockerIdle /\ RunIdle /\ VerifyIdle
    /\ \E n \in 0..MaxTargets : \E nfailed \in 0..n : \E first \in BOOLEAN :
          targets = MainTargets(n, nfailed, first)
    /\ docker_available \in BOOLEAN
    /\ all_results = <<>>
    /\ failed_targets = <<>>
    /\ main_pc = "start"
    /\ bi = 0
    /\ batch_log = <<>>

\* run_batch followed step by step on a small batch, or main on up to
\* MaxTargets targets with run_batch taken in one step
InitBatched == InitRunBatch \/ InitMain

NextBatched ==
    (\/ StartContainers \/ WaitContainers \/ TestContainers \/ CleanContainers
     \/ MainStart \/ FirstPass \/ Retry)
    /\ UNCHANGED verifyVars
    /\ UNCHANGED <<data, statistic_func, n_bootstrap, alpha, rng, ret, did,
                   prev, metrics, raising, statistics, printed, jack, loop>>

BatchedSpec == InitBatched /\ [][NextBatched]_vars

\* --------------- verify_stage1.py, verify_stage2.py: check_bca_confidence
\* The report file is missing, is not JSON or holds fields that are not
\* numbers ("malformed"), has no l3_accuracy_analysis ("empty"), or has one
\* ("analysis") with lower_bound and upper_bound in units of 10^-3 and
\* bootstrap_samples; a field that is absent reads as its default, -1 for
\* the bounds and 0 for bootstrap_samples.

\* if bootstrap_samples < 1000
MinBootstrapSamples == 1000
\* 1 in the units of the bounds
ReportUnit == 1000
ReportBoundValues == {-ReportUnit, 0, 300, 700, ReportUnit, 1200}
ReportSampleCounts == {0, MinBootstrapSamples - 1, MinBootstrapSamples,
                       10 * MinBootstrapSamples}
Reports ==
    {[kind |-> k] : k \in {"missing", "malformed", "empty"}}
    \cup {[kind |-> "analysis", lower_bound |-> l, upper_bound |-> u,
            bootstrap_samples |-> b] :
              l \in ReportBoundValues, u \in ReportBoundValues,
              b \in ReportSampleCounts}

\* the test of the interval without its middle comparison
ValidIntervalUnordered(lower, upper) == 0 <= lower /\ upper <= ReportUnit

\* 0 <= lower <= upper <= 1
ValidInterval(lower, upper) ==
    0 <= lower /\ lower <= upper /\ upper <= ReportUnit

\* record(section, key, status, detail): RESULT[section][key] = {...}
Record(section, key, status) == (key :> status) @@ section

\* the part the two functions share: the key and status recorded before
\* the test of bootstrap_samples, "" when none is
EarlyVerdict(missing_status) ==
    CASE report.kind = "missing" -> <<"results_file", missing_status>>
      [] report.kind = "malformed" -> <<"parse_error", "FAIL">>
      [] report.kind = "empty" -> <<"analysis", "FAIL">>
      [] report.kind = "analysis" ->
            IF ValidInterval(report.lower_bound, report.upper_bound)
            THEN <<"", "">>
            ELSE <<"validity", "FAIL">>

\* check_bca_confidence of verify_stage1.py: a missing file is a WARN; low
\* bootstrap_samples are recorded as WARN and the function goes on to record
\* PASS and return True
CheckStage1 ==
    /\ return1 = "none"
    /\ LET early == EarlyVerdict("WARN")
       IN  IF early[1] # ""
           THEN /\ result1' = Record(result1, early[1], early[2])
                /\ return1' = "False"
           ELSE /\ result1' =
                       Record(IF report.bootstrap_samples < MinBootstrapSamples
                              THEN Record(result1, "bootstrap_quality", "WARN")
                              ELSE result1,
                              "statistics", "PASS")
                /\ return1' = "True"
    /\ UNCHANGED <<report, result2, return2>>

\* check_bca_confidence of verify_stage2.py: every path returns what record
\* returns, status == PASS
CheckStage2 ==
    /\ return2 = "none"
    /\ LET early == EarlyVerdict("FAIL")
       IN  IF early[1] # ""
           THEN /\ result2' = Record(result2, early[1], early[2])
                /\ return2' = "False"
           ELSE IF report.bootstrap_samples < MinBootstrapSamples
           THEN /\ result2' = Record(result2, "bootstrap_quality", "WARN")
                /\ return2' = "False"
           ELSE /\ result2' = Record(result2, "statistics", "PASS")
                /\ return2' = "True"
    /\ UNCHANGED <<report, result1, return1>>

InitVerify ==
    /\ AnalysisIdle /\ DockerIdle /\ RunIdle /\ MainIdle
    /\ report \in Reports
    /\ result1 = <<>> /\ return1 = "none"
    /\ result2 = <<>> /\ return2 = "none"

NextVerify ==
    (CheckStage1 \/ CheckStage2)
    /\ UNCHANGED <<dockerVars, runVars, mainVars>>
    /\ UNCHANGED <<data, statistic_func, n_bootstrap, alpha, rng, ret, did,
                   prev, metrics, raising, statistics, printed, jack, loop>>

VerifySpec == InitVerify /\ [][NextVerify]_vars

\* ------------------------------------------------------------ properties
Called == ret # NoRet
IsError == "error" \in DOMAIN ret
IsInterval == "lower_bound" \in DOMAIN ret
Raised == "raised" \in DOMAIN ret
ValidAlpha == 0 < alpha /\ alpha < ProbScale
ValidConfig == ValidAlpha /\ n_bootstrap >= 1
IsConstant(x) == \A i \in 1..Len(x) : x[i] = x[1]
Analysed == statistics # NoRet
JackknifeCalled == jack # NoRet
Quad(r) == <<r.lower_bound, r.upper_bound, r.bias_correction_z0,
             r.acceleration_a>>

\* C1 (determinism): two calls with the same data, statistic, n_bootstrap and
\* alpha return the same value, and in particular the same (lower_bound,
\* upper_bound, bias_correction_z0, acceleration_a), whatever state the
\* process-wide generator was in before each of them.
Determinism ==
    prev.ret # NoRet =>
        /\ DOMAIN ret = DOMAIN prev.ret
        /\ IsInterval => Quad(ret) = Quad(prev.ret)
\* two calls that started from different generator states and whose
\* resamples differ from one another
DeterminismWitness ==
    /\ IsInterval
    /\ "lower_bound" \in DOMAIN prev.ret
    /\ prev.rng_before # did.rng_before
    /\ ret.bootstrap_std > 0

\* C2 (insufficient sample): a sample shorter than 5 gives the record with
\* the 'error' entry and no bounds, without raising; a sample of 5 or more
\* never gives a record with an 'error' entry.
InsufficientSample ==
    Called =>
        /\ Len(data) < 5 => (IsError /\ ~IsInterval /\ ~Raised
                             /\ DOMAIN ret = {"error"})
        /\ Len(data) >= 5 => ~IsError
InsufficientSampleWitness == Called /\ Len(data) = 2 /\ IsError

\* C3 (interval ordering), as claimed: every interval returned for n >= 5,
\* 0 < alpha < 1 and n_bootstrap >= 1 has lower_bound <= upper_bound.
IntervalOrdering ==
    (IsInterval /\ ValidConfig) => ret.lower_bound <= ret.upper_bound

\* C4 (bounds sanity for proportions), as claimed: with the mean as statistic
\* and 0/1 observations, every non-error result satisfies
\* 0 <= lower_bound <= upper_bound <= 1.
ProportionBounds ==
    (IsInterval /\ statistic_func = "mean") =>
        /\ 0 <= ret.lower_bound
        /\ ret.lower_bound <= ret.upper_bound
        /\ ret.upper_bound <= ValueScale

\* C5 (degenerate input): a constant sample of n >= 5 observations c with the
\* mean as statistic gives acceleration_a = 0 and lower_bound = upper_bound
\* = c, for every n_bootstrap >= 1.
DegenerateInput ==
    (Called /\ Len(data) >= 5 /\ IsConstant(data) /\ statistic_func = "mean"
       /\ n_bootstrap >= 1) =>
        /\ IsInterval
        /\ ret.acceleration_a = 0
        /\ ret.lower_bound = ValueScale * data[1]
        /\ ret.upper_bound = ValueScale * data[1]
DegenerateInputWitness ==
    /\ IsInterval /\ Len(data) >= 5 /\ IsConstant(data) /\ data[1] = 1
    /\ statistic_func = "mean" /\ n_bootstrap >= 2

\* The two denominators and the two adjusted levels of the returned
\* (z0, a) and the caller's alpha.
RetDenom1 == Denom(ret.bias_correction_z0, ret.acceleration_a,
                   NormPpf(alpha \div 2))
RetDenom2 == Denom(ret.bias_correction_z0, ret.acceleration_a,
                   NormPpf(ProbScale - alpha \div 2))
RetPhi1 == NormCdf(AdjustedZ(ret.bias_correction_z0, NormPpf(alpha \div 2),
                             RetDenom1))
RetPhi2 == NormCdf(AdjustedZ(ret.bias_correction_z0,
                             NormPpf(ProbScale - alpha \div 2), RetDenom2))
RetDegenerate == Abs(RetDenom1) <= EpsFloor \/ Abs(RetDenom2) <= EpsFloor

FallbackObservable ==
    (IsInterval /\ did.warned) => "fallback_taken" \in DOMAIN ret

\* C8 (probability clamp), as claimed: for 0 < alpha < 1 both levels of every
\* interval returned lie in [0.001, 0.999], on either branch.
ProbabilityClamp ==
    (IsInterval /\ ValidAlpha) =>
        /\ ClampLo <= ret.alpha1 /\ ret.alpha1 <= ClampHi
        /\ ClampLo <= ret.alpha2 /\ ret.alpha2 <= ClampHi

\* C9 (invalid configuration), as claimed: a call with alpha outside (0,1) or
\* n_bootstrap <= 0 never returns an interval record.
InvalidConfiguration == (Called /\ ~ValidConfig) => ~IsInterval

\* C10 (fail-fast ordering), as claimed: a call that ends in an error has not
\* reseeded the generator, drawn a resample or evaluated the statistic.
FailFastOrdering ==
    (Called /\ (IsError \/ Raised)) =>
        /\ ~did.reseeded
        /\ rng = did.rng_before
        /\ did.resamples = 0
        /\ did.stat_calls = 0

\* C11 (monotonicity in alpha), as claimed: for the same sample, statistic and
\* n_bootstrap, the interval of a call with a smaller valid alpha contains the
\* interval of the call with the larger one.
MonotoneInAlpha ==
    (IsInterval /\ ValidAlpha) =>
        \A al \in Alphas : (0 < al /\ al < alpha) =>
            LET r == bca_bootstrap(data, statistic_func, n_bootstrap, al, rng).ret
            IN  /\ r.lower_bound <= ret.lower_bound
                /\ r.upper_bound >= ret.upper_bound

\* C12 (fallback correctness), as claimed: when the jackknife replicates all
\* equal their mean theta_dot (a constant sample, for instance), the call takes
\* the plain-percentile branch and returns alpha1 = alpha/2 and
\* alpha2 = 1 - alpha/2.
FallbackCorrectness ==
    (IsInterval /\ ValidAlpha
       /\ IsConstant(JackknifeEstimates(data, statistic_func))) =>
        /\ did.warned
        /\ ret.alpha1 = alpha \div 2
        /\ ret.alpha2 = ProbScale - alpha \div 2

\* C13 (correction parameters come from the original data), for bca_bootstrap
\* of calculate_bca_confidence.py: the z0 and a returned, and used for alpha1
\* and alpha2, are the jackknife estimator's output on the original sample; a
\* call with any other alpha, another n_bootstrap or another generator state
\* returns the same z0 and a.
JackknifeOnOriginal ==
    IsInterval =>
        LET jk == jackknife_bias_acceleration(data, statistic_func)
            lv == AdjustedLevels(jk.z0, jk.a, alpha)
        IN  /\ ret.bias_correction_z0 = jk.z0
            /\ ret.acceleration_a = jk.a
            /\ ret.alpha1 = lv.alpha1 /\ ret.alpha2 = lv.alpha2
            /\ \A al \in Alphas :
                   LET r == bca_bootstrap(data, statistic_func, 1, al,
                                          did.rng_before).ret
                   IN  /\ r.bias_correction_z0 = ret.bias_correction_z0
                       /\ r.acceleration_a = ret.acceleration_a
            /\ "lower_bound" \in DOMAIN prev.ret =>
                   /\ prev.ret.bias_correction_z0 = ret.bias_correction_z0
                   /\ prev.ret.acceleration_a = ret.acceleration_a
\* a call with a nonzero acceleration whose resamples differ from one another
JackknifeOnOriginalWitness ==
    /\ IsInterval /\ n_bootstrap >= 2
    /\ ret.acceleration_a # 0
    /\ ret.bootstrap_std > 0

\* C13, as claimed, for bca_bootstrap of run_untangle_baseline.py: z0 and a
\* depend on the sample and the statistic only, so two layers with the same
\* binary_results get the same bias_correction and the same acceleration,
\* whatever was drawn for each.
CorrectionFromOriginalData ==
    Analysed =>
        \A l1 \in DOMAIN statistics \ raising :
            \A l2 \in DOMAIN statistics \ raising :
                metrics[l1] = metrics[l2] =>
                    /\ statistics[l1].bias_correction
                         = statistics[l2].bias_correction
                    /\ statistics[l1].acceleration = statistics[l2].acceleration

\* C16 (batch isolation), as claimed: a layer that is skipped or whose BCa
\* computation fails does not stop the layers after it, every layer with
\* observations gets its statistics, and the output (the statistics returned
\* and the lines printed) says which layers were skipped or failed.
BatchIsolation ==
    Analysed =>
        /\ \A l \in LayerSet :
               metrics[l] # <<>> => l \in DOMAIN statistics
        /\ \A l \in LayerSet \cap raising :
               metrics[l] # <<>> =>
                   \E i \in 1..Len(printed) : printed[i] = <<l, "BCa failed">>
        /\ \A l \in LayerSet :
               metrics[l] = <<>> =>
                   \/ l \in DOMAIN statistics
                   \/ \E i \in 1..Len(printed) : printed[i][1] = l

\* C14 (result bundle): every non-error result has the ten entries; its
\* original_estimate is the statistic of the original sample, its
\* bootstrap_samples the n_bootstrap argument (and the size of the bootstrap
\* distribution), its alpha1 and alpha2 the levels computed from the z0 and a
\* it reports, and its bounds the percentiles of the bootstrap distribution at
\* those levels.
ResultBundle ==
    IsInterval =>
        LET lv == AdjustedLevels(ret.bias_correction_z0, ret.acceleration_a,
                                 alpha)
        IN  /\ DOMAIN ret = {"lower_bound", "upper_bound", "bias_correction_z0",
                             "acceleration_a", "bootstrap_mean",
                             "bootstrap_std", "alpha1", "alpha2",
                             "original_estimate", "bootstrap_samples"}
            /\ ret.original_estimate = Statistic(statistic_func, data)
            /\ ret.bootstrap_samples = n_bootstrap
            /\ Len(did.estimates) = n_bootstrap
            /\ ret.alpha1 = lv.alpha1 /\ ret.alpha2 = lv.alpha2
            /\ ret.lower_bound = Percentile(did.estimates, ret.alpha1)
            /\ ret.upper_bound = Percentile(did.estimates, ret.alpha2)
            /\ ret.bootstrap_mean = MeanOf(did.estimates)
            /\ ret.bootstrap_std = StdOf(did.estimates)
\* a result whose bounds are interpolated between different order statistics
\* and whose original estimate is not the statistic of the first resample
ResultBundleWitness ==
    /\ IsInterval /\ n_bootstrap = MaxBoot
    /\ ret.lower_bound < ret.upper_bound
    /\ ret.original_estimate # did.estimates[1]
    /\ ret.bootstrap_samples # Len(data)

\* C15 (jackknife small-sample policy): for a sample of fewer than 5
\* observations, the empty sample included, jackknife_bias_acceleration returns
\* z0 = 0 and a = 0 and has not evaluated the statistic.
JackknifeSmallSample ==
    (JackknifeCalled /\ Len(data) < 5) =>
        /\ jack.z0 = 0
        /\ jack.a = 0
        /\ jack.stat_calls = 0
\* the call on a sample of 4 observations
JackknifeSmallSampleWitness ==
    JackknifeCalled /\ Len(data) = 4 /\ jack.z0 = 0 /\ jack.stat_calls = 0

\* C18 (no side effects): no call changes the sample or anything of the
\* process beside the generator; jackknife_bias_acceleration leaves the
\* generator as it was, and bca_bootstrap leaves it as it was when it returns
\* the error record and reseeded otherwise.
NoSideEffects ==
    [][ /\ data' = data
        /\ batchVars' = batchVars
        /\ jack' # jack =>
               /\ rng' = rng
               /\ <<ret, did, prev>>' = <<ret, did, prev>>
        /\ <<ret, did, prev>>' # <<ret, did, prev>> =>
               /\ jack' = jack
               /\ IF "error" \in DOMAIN ret' THEN rng' = rng
                  ELSE did'.reseeded ]_vars
\* a direct jackknife call that ran the leave-one-out loop after a call of
\* bca_bootstrap that resampled
NoSideEffectsWitness ==
    /\ JackknifeCalled /\ jack.stat_calls > 0
    /\ IsInterval /\ did.reseeded /\ rng # SeedValue

\* C20 (bias correction z0): for n >= 5, z0 is the inverse normal CDF of p
\* clamped into [0.001, 0.999], p the share of the n leave-one-out values
\* strictly below the statistic of the whole sample; so z0 lies between the
\* inverse CDF of 0.001 and that of 0.999, also when p = 0 or p = 1.
BiasCorrectionZ0 ==
    (JackknifeCalled /\ Len(data) >= 5) =>
        LET n == Len(data)
            theta_hat == Statistic(jack.statistic, data)
            below == Cardinality({i \in 1..n :
                        Statistic(jack.statistic, LeaveOut(data, i)) < theta_hat})
            p == ((below * PpmScale) \div n) * (ProbScale \div PpmScale)
        IN  /\ jack.z0 = NormPpf(Max2(PpmScale, Min2(999 * PpmScale, p)))
            /\ NormPpf(PpmScale) <= jack.z0
            /\ jack.z0 <= NormPpf(999 * PpmScale)
            /\ below = 0 => jack.z0 = NormPpf(PpmScale)
            /\ below = n => jack.z0 = NormPpf(999 * PpmScale)
\* every leave-one-out value is below the statistic of the sample: the sum of
\* a sample of ones
BiasCorrectionZ0Witness ==
    /\ JackknifeCalled /\ Len(data) >= 5
    /\ jack.statistic = "sum" /\ \A i \in 1..Len(data) : data[i] = 1
    /\ jack.z0 = NormPpf(999 * PpmScale) /\ jack.z0 > 3 * ZScale

\* C17 (generality in the statistic): with the median as statistic, a sample
\* of n >= 5 observations and a valid configuration, the call completes with
\* an interval, lower_bound <= upper_bound, original_estimate is the median of
\* the sample, every bootstrap replicate is a median of 0/1 observations (0,
\* 1/2 or 1, and never 1/2 for odd n), and the statistic was evaluated once per
\* resample, once per leave-one-out sample and twice on the sample.
StatisticGenerality ==
    (Called /\ Len(data) >= 5 /\ ValidConfig /\ statistic_func = "median") =>
        LET n == Len(data)
            zeros == Cardinality({i \in 1..n : data[i] = 0})
        IN  /\ IsInterval
            /\ ret.lower_bound <= ret.upper_bound
            /\ ret.original_estimate
                 = (IF 2 * zeros > n THEN 0
                    ELSE IF 2 * zeros < n THEN ValueScale
                    ELSE ValueScale \div 2)
            /\ \A i \in 1..Len(did.estimates) :
                   \/ did.estimates[i] \in {0, ValueScale}
                   \/ n % 2 = 0 /\ did.estimates[i] = ValueScale \div 2
            /\ did.stat_calls = n_bootstrap + n + 2
\* an interval of positive width around a median that is not the mean
StatisticGeneralityWitness ==
    /\ IsInterval /\ ValidConfig /\ statistic_func = "median"
    /\ ret.lower_bound < ret.upper_bound
    /\ ret.original_estimate # (ValueScale * SumSeq(data)) \div Len(data)

\* C19 (end-to-end example), as claimed: for the sample of 15 ones and 5
\* zeros, the mean, n_bootstrap = 10000 and alpha = 0.05, the result has
\* original_estimate = 0.75, both bounds within [0.5, 0.95] and
\* lower_bound < 0.75 < upper_bound.
EndToEndExample ==
    IsInterval =>
        /\ ret.original_estimate = (75 * ValueScale) \div 100
        /\ ValueScale \div 2 <= ret.lower_bound
        /\ ret.lower_bound <= (95 * ValueScale) \div 100
        /\ ValueScale \div 2 <= ret.upper_bound
        /\ ret.upper_bound <= (95 * ValueScale) \div 100
        /\ ret.lower_bound < (75 * ValueScale) \div 100
        /\ (75 * ValueScale) \div 100 < ret.upper_bound

\* C21 (acceleration a): for n >= 5, a is the quotient of the sum of the cubed
\* deviations theta_dot - theta_i by 6 times the 1.5th power of the sum of
\* their squares whenever that denominator is not (nearly) zero, and a = 0
\* when it is, which is the case when all leave-one-out values are the same.
AccelerationValue ==
    (JackknifeCalled /\ Len(data) >= 5) =>
        LET n == Len(data)
            est == [i \in 1..n |-> Statistic(jack.statistic, LeaveOut(data, i))]
            theta_dot == SumSeq(est) \div n
            d == [i \in 1..n |-> theta_dot - est[i]]
            cubes == SumSeq([i \in 1..n |-> d[i] * d[i] * d[i]])
            squares == SumSeq([i \in 1..n |-> d[i] * d[i]])
            step == (6 * Pow15(squares)) \div AccScale
        IN  IF \A i \in 1..n : est[i] = est[1]
            THEN squares = 0 /\ jack.a = 0
            ELSE /\ squares > 0 /\ step > 0
                 /\ (Abs(jack.a) - 1) * step <= Abs(cubes)
                 /\ Abs(cubes) <= (Abs(jack.a) + 1) * (step + 1)
                 /\ jack.a > 0 => cubes > 0
                 /\ jack.a < 0 => cubes < 0
\* the division is carried out: a call that returned a non-zero a
AccelerationValueWitness ==
    JackknifeCalled /\ Len(data) >= 5 /\ jack.a # 0

\* C22 (jackknife distribution): for n >= 5 the statistic is evaluated once
\* on the whole sample and n times on leave-one-out samples, and the i-th
\* replicate is the statistic of the sample without its i-th element, the
\* other n - 1 elements in their order.
JackknifeDistribution ==
    (JackknifeCalled /\ Len(data) >= 5) =>
        LET n == Len(data)
            Without(i) == [j \in 1..(n - 1) |->
                              IF j < i THEN data[j] ELSE data[j + 1]]
        IN  /\ jack.stat_calls = n + 1
            /\ Len(jack.calls) = n + 1
            /\ jack.calls[1] = data
            /\ Cardinality({k \in 1..(n + 1) : Len(jack.calls[k]) = n}) = 1
            /\ Len(jack.jackknife_estimates) = n
            /\ \A i \in 1..n :
                   /\ jack.calls[i + 1] = Without(i)
                   /\ jack.jackknife_estimates[i]
                          = Statistic(jack.statistic, Without(i))
\* a call on a sample whose ones and zeros alternate, so that leaving out
\* neighbouring elements gives different samples
JackknifeDistributionWitness ==
    /\ JackknifeCalled /\ Len(data) >= 5 /\ data = Alternating(Len(data))
    /\ jack.calls[2] # jack.calls[3]
    /\ Len(jack.jackknife_estimates) = Len(data)

\* C23 (bootstrap distribution): for n >= 5 and n_bootstrap >= 1 the loop
\* runs n_bootstrap times and leaves n_bootstrap values, each the statistic
\* of a resample of exactly n elements, every one of them an element of the
\* sample.
BootstrapDistribution ==
    (Called /\ Len(data) >= 5 /\ n_bootstrap >= 1) =>
        /\ did.resamples = n_bootstrap
        /\ Len(did.estimates) = n_bootstrap
        /\ Len(did.samples) = n_bootstrap
        /\ \A b \in 1..n_bootstrap :
               /\ Len(did.samples[b]) = Len(data)
               /\ \A j \in 1..Len(data) :
                      \E i \in 1..Len(data) : did.samples[b][j] = data[i]
               /\ did.estimates[b] = Statistic(statistic_func, did.samples[b])
\* a call with the largest number of resamples on a sample of both values,
\* two of whose resamples differ
BootstrapDistributionWitness ==
    /\ Called /\ Len(data) >= 5 /\ n_bootstrap = MaxBoot /\ ~IsConstant(data)
    /\ Len(did.samples) = MaxBoot
    /\ did.samples[1] # did.samples[2]

\* C24 (bounded acceleration): for n >= 5 the acceleration satisfies
\* |a| <= 1/6, so that with z0 within the inverse CDF of 0.001 and 0.999 the
\* product a * (z0 + z) stays within (|z0| + |z|) / 6 for the two z-values
\* of the call; at alpha = 0.05 that is below 1.
BoundedAcceleration ==
    (JackknifeCalled /\ Len(data) >= 5) =>
        /\ 6 * Abs(jack.a) <= AccScale
        /\ \A z \in {NormPpf(alpha \div 2), NormPpf(ProbScale - alpha \div 2)} :
               /\ 6 * Abs(jack.a * (jack.z0 + z))
                      <= AccScale * (Abs(jack.z0) + Abs(z))
               /\ alpha = DefaultAlpha =>
                      Abs(jack.a * (jack.z0 + z)) < AccScale * ZScale
\* a call whose a is more than half of the bound
BoundedAccelerationWitness ==
    JackknifeCalled /\ Len(data) >= 5 /\ 12 * Abs(jack.a) > AccScale

\* C25 (consistent thresholds): a call of bca_bootstrap that gets as far as
\* the jackknife has n >= 5, and the jackknife then runs its leave-one-out
\* loop (n + 1 evaluations of the statistic) and never returns its neutral
\* default; a sample with n < 5 yields the error record, with no evaluation
\* of the statistic, and never an interval.
ConsistentThresholds ==
    /\ (Called /\ Len(data) < 5) =>
           IsError /\ ~IsInterval /\ did.stat_calls = 0
    /\ (Called /\ ~IsError) =>
           /\ Len(data) >= 5
           /\ did.stat_calls - did.resamples - (IF IsInterval THEN 1 ELSE 0)
                  = Len(data) + 1
\* an interval from a sample of exactly 5 observations, the jackknife having
\* evaluated the statistic 6 times
ConsistentThresholdsWitness ==
    /\ IsInterval /\ Len(data) = 5
    /\ did.stat_calls = n_bootstrap + 7

\* C29 (bounded start retries): docker_run makes at most max_retries
\* attempts, each 'docker run' directly after a 'docker rm -f' of the same
\* name; it returns True at the first 'docker run' that exits with code 0 and
\* False when no attempt does, by return code or by exception; and it
\* returns.
StartAttempts ==
    LET runs == {k \in DOMAIN commands : commands[k].cmd = "run"}
        rms == {k \in DOMAIN commands : commands[k].cmd = "rm"}
        started == {k \in runs : commands[k].result = "0"}
    IN  /\ Cardinality(runs) <= Max2(max_retries, 0)
        /\ Cardinality(rms) <= Max2(max_retries, 0)
        /\ \A k \in runs :
               k > 1 /\ commands[k - 1] = [cmd |-> "rm", result |-> "returned"]
        /\ \A k \in started :
               k = Len(commands) /\ docker_pc = "done" /\ docker_ret = "True"
        /\ docker_pc = "done" =>
               docker_ret = (IF started # {} THEN "True" ELSE "False")
        /\ docker_pc # "done" => docker_ret = "none"
BatchCleanup ==
    run_pc \in {"returned", "raised"} =>
        \A k \in DOMAIN docker_calls :
            (docker_calls[k].call = "docker_run_with_fallback"
             /\ docker_calls[k].ok) =>
                \E j \in (k + 1)..Len(docker_calls) :
                    /\ docker_calls[j].call = "docker_stop"
                    /\ docker_calls[j].name = docker_calls[k].name

\* C27 (one result per target): run_batch returns one record for each target
\* of its batch, with one of the four statuses; and from the end of the
\* first pass on all_results holds one record per target, a record that came
\* from a retry having status ok and standing in place of a start_failed or
\* not_ready one.
OneResultPerTarget ==
    /\ run_pc = "returned" =>
           /\ Len(results) = Len(batch_targets)
           /\ \A i \in DOMAIN batch_targets :
                  Cardinality({k \in DOMAIN results :
                      results[k].combo_id = batch_targets[i].combo_id}) = 1
           /\ \A k \in DOMAIN results : results[k].status \in StatusSet
           /\ results = run_batch(batch_targets, 1)
    /\ main_pc \in {"retry", "report"} =>
           /\ Len(all_results) = Len(targets)
           /\ \A i \in DOMAIN targets :
                  Cardinality({k \in DOMAIN all_results :
                      all_results[k].combo_id = targets[i].combo_id}) = 1
           /\ \A k \in DOMAIN all_results :
                  LET r == all_results[k]
                      t == targets[r.combo_id]
                  IN  /\ r.status \in StatusSet
                      /\ r.retried =>
                             /\ r.status = "ok"
                             /\ t.fate \in {"start_failed", "not_ready"}
                             /\ t.retry_fate = "ok"
                      /\ ~r.retried => r.status = t.fate
\* main after a retry over more than one batch that replaced some records
\* and left others
OneResultPerTargetWitness ==
    /\ main_pc = "report" /\ Len(targets) > BATCH_SIZE
    /\ \E k \in DOMAIN all_results : all_results[k].retried
    /\ \E k \in DOMAIN all_results :
           all_results[k].status \in {"start_failed", "not_ready"}

\* C28 (single retry round): retry batches come after the whole first pass
\* and hold at most BATCH_SIZE targets; with 1 to 50 targets left
\* start_failed or not_ready by the first pass, exactly those are retried,
\* each once; with none or more than 50 there is no retry batch; a target
\* whose first status is ok or request_failed is never retried.
SingleRetryRound ==
    LET first == {k \in DOMAIN batch_log : batch_log[k].pass = 1}
        second == {k \in DOMAIN batch_log : batch_log[k].pass = 2}
        failed == {i \in DOMAIN targets :
                      targets[i].fate \in {"start_failed", "not_ready"}}
        Retries(i) ==
            Cardinality({p \in second \X (1..BATCH_SIZE) :
                /\ p[2] <= Len(batch_log[p[1]].batch_targets)
                /\ batch_log[p[1]].batch_targets[p[2]].combo_id
                       = targets[i].combo_id})
    IN  /\ \A k \in second :
               /\ Len(batch_log[k].batch_targets) \in 1..BATCH_SIZE
               /\ \A j \in first : j < k
               /\ Cardinality(first) = BatchCount(Len(targets))
        /\ \A i \in DOMAIN targets :
               /\ Retries(i) <= 1
               /\ i \notin failed => Retries(i) = 0
        /\ Cardinality(failed) \notin 1..RetryLimit => second = {}
        /\ main_pc = "report" =>
               \A i \in failed :
                   Retries(i) = (IF Cardinality(failed) <= RetryLimit
                                 THEN 1 ELSE 0)
\* main at its report with more than 50 failed targets and no retry batch
SingleRetryRoundWitness ==
    /\ main_pc = "report"
    /\ Len(failed_targets) > RetryLimit
    /\ \A k \in DOMAIN batch_log : batch_log[k].pass = 1

====
